---- MODULE Spec2Model ----
(***************************************************************************)
(* TripMate maintenance scripts.                                           *)
(*                                                                         *)
(* Part I models the GET /api/v1/weather handler that                      *)
(* migrate_weather_complete.py installs into routes.ts (the text of        *)
(* new_weather_route): one request, its awaited upstream calls, and the    *)
(* response it sends.                                                      *)
(*                                                                         *)
(* Part II models the marker search and splice that                        *)
(* migrate_weather_complete.py and remove_post_routes.py perform on        *)
(* routes.ts.                                                              *)
(*                                                                         *)
(* Temperatures coming from the provider are decimals; they are held in    *)
(* tenths of a degree so that Math.round is a real rounding.  Strings the  *)
(* code inspects (trim, toLowerCase, includes, find) are sequences of      *)
(* one-character strings.                                                  *)
(***************************************************************************)
EXTENDS Integers, Sequences, FiniteSets, TLC

VARIABLES
  req,       \* the query parameters and the configured credential
  pc,        \* position of the handler: start, geocode, current, forecast, ai, done
  via,       \* branch that called getWeatherData: none, coord, place
  coords,    \* (latNum, lonNum) handed to getWeatherData
  geoOut,    \* what the geocoding fetch produced
  curData,   \* currentData once the current-conditions fetch succeeded
  fcOut,     \* what the forecast fetch produced
  aiOut,     \* what ai.weather produced
  month,     \* now.getMonth() read by a synthetic fallback, -1 before
  calls,     \* outbound calls made so far, in order
  resps,     \* responses sent on res, in order
  thrown,    \* an exception left the handler
  script,    \* which script runs: migrate, remove
  spc,       \* position of the script: start, spliced, done, exited
  orig,      \* routes.ts as it was before the script ran
  content,   \* routes.ts on disk
  writes,    \* number of times the script wrote routes.ts
  exitCode   \* -1 while running, 1 after exit(1), 0 at normal end

hvars == <<req, pc, via, coords, geoOut, curData, fcOut, aiOut, month, calls, resps, thrown>>
svars == <<script, spc, orig, content, writes, exitCode>>
vars == <<hvars, svars>>

(***************************************************************************)
(* Bounds of the model.                                                    *)
(***************************************************************************)
\* longest forecastDays list the provider returns (the code keeps 7)
MaxDays == 8
\* most geocoding results returned
MaxResults == 2
\* longest routes.ts, in tokens
MaxLen == 6

(***************************************************************************)
(* JavaScript values and conversions                                       *)
(***************************************************************************)
Range(s) == {s[i] : i \in 1..Len(s)}

Undef == [t |-> "undef", s |-> <<>>]
Str(s) == [t |-> "str", s |-> s]

IsSpace(c) == c = " "

RECURSIVE TrimLeft(_)
TrimLeft(s) == IF s # <<>> /\ IsSpace(Head(s)) THEN TrimLeft(Tail(s)) ELSE s

RECURSIVE TrimRight(_)
TrimRight(s) ==
  IF s # <<>> /\ IsSpace(s[Len(s)]) THEN TrimRight(SubSeq(s, 1, Len(s) - 1)) ELSE s

\* String.prototype.trim
Trim(s) == TrimRight(TrimLeft(s))

\* a value is falsy when undefined or the empty string
Truthy(v) == v.t = "str" /\ v.s # <<>>

Digits == <<"0", "1", "2", "3", "4", "5", "6", "7", "8", "9">>
IsDigit(c) == \E i \in 1..10 : Digits[i] = c
DigitVal(c) == (CHOOSE i \in 1..10 : Digits[i] = c) - 1

RECURSIVE DecValue(_)
DecValue(s) == IF s = <<>> THEN 0 ELSE 10 * DecValue(SubSeq(s, 1, Len(s) - 1)) + DigitVal(s[Len(s)])

AllDigits(s) == s # <<>> /\ \A i \in 1..Len(s) : IsDigit(s[i])

NaN == [k |-> "nan", v |-> 0]
Num(n) == [k |-> "num", v |-> n]
Inf == [k |-> "inf", v |-> 0]

\* Number(x) on a query parameter: undefined is NaN, a blank string is 0, a
\* decimal literal is its value, "Infinity" is Infinity, anything else is NaN
Number(v) ==
  IF v.t = "undef" THEN NaN
  ELSE LET s == Trim(v.s) IN
    IF s = <<>> THEN Num(0)
    ELSE IF s = <<"I", "n", "f", "i", "n", "i", "t", "y">> THEN Inf
    ELSE IF AllDigits(s) THEN Num(DecValue(s))
    ELSE IF Head(s) = "-" /\ AllDigits(Tail(s)) THEN Num(0 - DecValue(Tail(s)))
    ELSE NaN

IsFinite(n) == n.k = "num"

\* Math.round of a value given in tenths: nearest integer, halves go up
RoundTenths(t) == (t + 5) \div 10

\* Math.round(c * 9/5 + 32) of a Celsius value given in tenths
RoundFahrenheit(t) == (9 * t + 1625) \div 50

UpperCase == <<"A", "C", "E", "H", "I", "N", "O", "R", "S", "W">>
LowerCase == <<"a", "c", "e", "h", "i", "n", "o", "r", "s", "w">>
LowerChar(c) ==
  IF \E i \in 1..Len(UpperCase) : UpperCase[i] = c
  THEN LowerCase[CHOOSE i \in 1..Len(UpperCase) : UpperCase[i] = c]
  ELSE c

\* String.prototype.toLowerCase
ToLowerCase(s) == [i \in 1..Len(s) |-> LowerChar(s[i])]

\* String.prototype.includes
Includes(s, sub) ==
  \E i \in 1..(Len(s) - Len(sub) + 1) : SubSeq(s, i, i + Len(sub) - 1) = sub

(***************************************************************************)
(* The request                                                             *)
(***************************************************************************)
Some(n) == [has |-> TRUE, v |-> n]
None == [has |-> FALSE, v |-> 0]

\* const lat = Number(req.query.lat)
Lat(r) == Number(r.lat)

\* const lon = Number(req.query.lon)
Lon(r) == Number(r.lon)

\* const cityQ = String(req.query.city || req.query.location || '').trim()
CityQ(r) ==
  Trim(IF Truthy(r.city) THEN r.city.s
       ELSE IF Truthy(r.location) THEN r.location.s
       ELSE <<>>)

\* const units = String(req.query.units || 'metric'); an absent parameter is ""
Units(r) == IF r.units = "" THEN "metric" ELSE r.units

\* the branch the handler takes once the request is parsed
RouteCityFirst(r) ==
  IF ~r.key THEN "noconfig"
  ELSE IF CityQ(r) # <<>> THEN "place"
  ELSE IF IsFinite(Lat(r)) /\ IsFinite(Lon(r)) THEN "coord"
  ELSE "invalid"

RouteNoCityCheck(r) ==
  IF ~r.key THEN "noconfig"
  ELSE IF IsFinite(Lat(r)) /\ IsFinite(Lon(r)) THEN "coord"
  ELSE "place"

Route(r) ==
  IF ~r.key THEN "noconfig"
  ELSE IF IsFinite(Lat(r)) /\ IsFinite(Lon(r)) THEN "coord"
  ELSE IF CityQ(r) = <<>> THEN "invalid"
  ELSE "place"

\* res.status(503).json({ current: {}, forecast: [], ..., error: ... })
NotConfigured ==
  [status |-> 503,
   body |-> [current |-> [empty |-> TRUE], forecast |-> <<>>, recommendations |-> <<>>,
             alerts |-> <<>>, error |-> "Weather service not configured"]]

\* res.status(400).json({ current: {}, forecast: [], recommendations: [], alerts: [] })
LocationRequired ==
  [status |-> 400,
   body |-> [current |-> [empty |-> TRUE], forecast |-> <<>>, recommendations |-> <<>>,
             alerts |-> <<>>]]

\* res.json(x) answers with status 200
Ok200(b) == [status |-> 200, body |-> b]

(***************************************************************************)
(* getWeatherData: normalisation of the two provider responses             *)
(***************************************************************************)
IconTypes ==
  {"CLEAR", "PARTLY_CLOUDY", "CLOUDY", "RAIN", "SCATTERED_SHOWERS", "DRIZZLE",
   "THUNDERSTORM", "SNOW", "MIST", "FOG", "WIND"}

iconMap(t) ==
  CASE t = "CLEAR" -> "fas fa-sun"
    [] t = "PARTLY_CLOUDY" -> "fas fa-cloud-sun"
    [] t = "CLOUDY" -> "fas fa-cloud"
    [] t \in {"RAIN", "SCATTERED_SHOWERS", "DRIZZLE"} -> "fas fa-cloud-rain"
    [] t = "THUNDERSTORM" -> "fas fa-bolt"
    [] t = "SNOW" -> "fas fa-snowflake"
    [] t \in {"MIST", "FOG"} -> "fas fa-smog"
    [] t = "WIND" -> "fas fa-wind"
    [] OTHER -> ""

\* iconMap[type] || 'fas fa-cloud'
Icon(t) == IF t \in IconTypes THEN iconMap(t) ELSE "fas fa-cloud"

\* x?.text || 'Clear'
TextOrClear(v) == IF Truthy(v) THEN v.s ELSE <<"C", "l", "e", "a", "r">>

\* x?.type || 'CLEAR'
TypeOrClear(t) == IF t = "" THEN "CLEAR" ELSE t

\* units === 'metric' ? Math.round(c) : Math.round(c * 9/5 + 32), c in tenths
Convert(units, c) == IF units = "metric" THEN RoundTenths(c) ELSE RoundFahrenheit(c)

\* const tempCelsius = currentData.temperature?.degrees ?? 22, in tenths
TempCelsius(cd) == IF cd.temp.has THEN cd.temp.v ELSE 220

\* i === 0 ? 'Today' : i === 1 ? 'Tomorrow' : `Day ${i + 1}`, i counted from 0
DayLabel(i) ==
  IF i = 0 THEN [word |-> "Today", n |-> 0]
  ELSE IF i = 1 THEN [word |-> "Tomorrow", n |-> 0]
  ELSE [word |-> "Day", n |-> i + 1]

\* slice(0, 7)
Slice7(days) == SubSeq(days, 1, IF Len(days) < 7 THEN Len(days) ELSE 7)

\* one element of the mapped forecast; temperature is the already converted
\* current temperature, which the day's missing degrees default to
ForecastEntry(day, i, temperature, units) ==
  LET maxTemp == IF day.max.has THEN day.max.v ELSE temperature * 10
      minTemp == IF day.min.has THEN day.min.v ELSE (temperature - 5) * 10
  IN [day |-> DayLabel(i),
      high |-> Convert(units, maxTemp),
      low |-> Convert(units, minTemp),
      condition |-> TextOrClear(day.text),
      icon |-> Icon(TypeOrClear(day.type))]

\* (forecastData.forecastDays || []).slice(0, 7).map(...)
Forecast(fd, temperature, units) ==
  LET days == Slice7(IF fd.has THEN fd.days ELSE <<>>)
  IN [i \in 1..Len(days) |-> ForecastEntry(days[i], i - 1, temperature, units)]

\* the recommendations array of a provider result
Recommendations(temperature, condition) ==
  (IF temperature >= 30 THEN <<"Stay hydrated">> ELSE <<>>)
  \o (IF \/ Includes(ToLowerCase(condition), <<"r", "a", "i", "n">>)
         \/ Includes(ToLowerCase(condition), <<"s", "h", "o", "w", "e", "r">>)
      THEN <<"Carry a raincoat">> ELSE <<>>)
  \o <<"Use sunscreen during midday">>

\* the object getWeatherData returns when both fetches succeeded
WeatherData(cd, fd, units) ==
  LET temperature == Convert(units, TempCelsius(cd))
      condition == TextOrClear(cd.text)
      forecast == Forecast(fd, temperature, units)
      current ==
        [temperature |-> temperature,
         tempMin |-> IF Len(forecast) > 0 THEN forecast[1].low ELSE temperature - 5,
         tempMax |-> IF Len(forecast) > 0 THEN forecast[1].high ELSE temperature,
         condition |-> condition,
         humidity |-> IF cd.humidity.has THEN cd.humidity.v ELSE 60,
         windSpeed |-> RoundTenths(IF cd.wind.has THEN cd.wind.v ELSE 100),
         windDeg |-> IF cd.windDeg.has THEN cd.windDeg.v ELSE 0,
         windDir |-> IF cd.windDir = "" THEN "N" ELSE cd.windDir,
         icon |-> Icon(TypeOrClear(cd.type))]
  IN [current |-> current,
      forecast |-> forecast,
      hourly |-> <<>>,
      alerts |-> <<>>,
      recommendations |-> Recommendations(temperature, condition),
      source |-> "google-weather"]

Null == [null |-> TRUE]
NotNull(x) == [null |-> FALSE, data |-> x]

\* getWeatherData after the forecast fetch: null unless the fetch succeeded
GetWeatherDataPartial(cd, fo, units) ==
  IF fo.kind = "ok" THEN NotNull(WeatherData(cd, fo.data, units))
  ELSE NotNull(WeatherData(cd, [has |-> FALSE, days |-> <<>>], units))

GetWeatherData(cd, fo, units) ==
  IF fo.kind = "ok" THEN NotNull(WeatherData(cd, fo.data, units)) ELSE Null

(***************************************************************************)
(* The synthetic fallback                                                  *)
(***************************************************************************)
BaseTable == <<20, 22, 26, 30, 32, 33, 32, 31, 30, 28, 24, 21>>

\* [20, 22, ...][month] || 28
BaseTemp(m) == IF m \in 0..11 THEN BaseTable[m + 1] ELSE 28

BaseCondition(b) == IF b >= 30 THEN "Sunny" ELSE IF b >= 25 THEN "Partly Cloudy" ELSE "Cloudy"

CycleCondition(i) ==
  IF i % 4 = 0 THEN "Sunny"
  ELSE IF i % 4 = 1 THEN "Partly Cloudy"
  ELSE IF i % 4 = 2 THEN "Cloudy"
  ELSE "Rain"

\* Array.from({ length: 7 }, (_, i) => ...) of the coordinate branch
SyntheticForecast(b) ==
  [k \in 1..7 |->
    [day |-> DayLabel(k - 1),
     high |-> b + ((k - 1) % 3) - 1,
     low |-> b - 5 + ((k - 1) % 2),
     condition |-> CycleCondition(k - 1),
     icon |-> "fas fa-cloud-sun"]]

\* the response of the coordinate branch when getWeatherData returned null
CoordFallback(m) ==
  LET b == BaseTemp(m) IN
  Ok200([current |-> [temperature |-> b, humidity |-> 60, windSpeed |-> 10,
                      condition |-> BaseCondition(b), icon |-> "fas fa-cloud-sun"],
         forecast |-> SyntheticForecast(b),
         recommendations |-> <<"Carry light cotton clothing", "Stay hydrated",
                               "Use sunscreen during midday">>,
         alerts |-> <<>>,
         source |-> "fallback-route"])

\* the forecast built in the outer catch block: no icon
CatchForecast(b) ==
  [k \in 1..7 |->
    [day |-> DayLabel(k - 1),
     high |-> b + ((k - 1) % 3) - 1,
     low |-> b - 5 + ((k - 1) % 2),
     condition |-> CycleCondition(k - 1)]]

\* what the outer catch block does with an exception: answer 200, rethrow nothing
OuterCatchRethrow(m) == [resps |-> <<>>, thrown |-> TRUE]

OuterCatch(m) ==
  LET b == BaseTemp(m) IN
  [resps |->
     <<Ok200([current |-> [temperature |-> b, humidity |-> 60, windSpeed |-> 10,
                           condition |-> BaseCondition(b)],
              forecast |-> CatchForecast(b),
              recommendations |-> <<"Carry light cotton clothing", "Stay hydrated",
                                    "Use sunscreen during midday",
                                    "Check local advisories for heat or rain">>,
              alerts |-> <<>>,
              source |-> "fallback-route"])>>,
   thrown |-> FALSE]

(***************************************************************************)
(* Inputs: requests and what the upstream services may answer              *)
(***************************************************************************)
LatRaw == {Undef, Str(<<>>), Str(<<"1", "2">>), Str(<<"a">>)}
LonRaw == {Undef, Str(<<"-", "7">>), Str(<<"I", "n", "f", "i", "n", "i", "t", "y">>)}
CityRaw == {Undef, Str(<<" ">>), Str(<<"R", "o", "m", "e">>)}
LocationRaw == {Undef, Str(<<"O", "s", "l", "o">>)}
UnitsRaw == {"", "metric", "imperial"}

Requests ==
  [lat : LatRaw, lon : LonRaw, city : CityRaw, location : LocationRaw,
   units : UnitsRaw, key : BOOLEAN]

Months == 0..11

NoCurrent ==
  [temp |-> None, text |-> Undef, type |-> "", humidity |-> None, wind |-> None,
   windDeg |-> None, windDir |-> ""]

\* bodies of the current-conditions response
CurrentDatas ==
  {NoCurrent,
   [temp |-> Some(295), text |-> Str(<<"R", "a", "i", "n">>), type |-> "RAIN",
    humidity |-> Some(80), wind |-> Some(126), windDeg |-> Some(90), windDir |-> "E"],
   [temp |-> Some(0), text |-> Str(<<"S", "H", "O", "W", "E", "R", "S">>),
    type |-> "SCATTERED_SHOWERS", humidity |-> Some(95), wind |-> None,
    windDeg |-> None, windDir |-> ""],
   [temp |-> Some(1000), text |-> Str(<<"S", "u", "n", "n", "y">>), type |-> "CLEAR",
    humidity |-> Some(5), wind |-> Some(4), windDeg |-> Some(0), windDir |-> "N"],
   [temp |-> Some(294), text |-> Str(<<"H", "a", "i", "l">>), type |-> "HAIL",
    humidity |-> None, wind |-> Some(300), windDeg |-> Some(270), windDir |-> "W"],
   [temp |-> Some(-5), text |-> Undef, type |-> "SNOW",
    humidity |-> Some(60), wind |-> Some(15), windDeg |-> Some(180), windDir |-> "S"]}

FullDay(i) ==
  [max |-> Some(250 + 15 * i), min |-> Some(146 - 7 * i),
   text |-> IF i % 2 = 0 THEN Str(<<"R", "a", "i", "n">>) ELSE Str(<<"F", "o", "g">>),
   type |-> IF i % 2 = 0 THEN "RAIN" ELSE "FOG"]

BareDay == [max |-> None, min |-> None, text |-> Undef, type |-> ""]

\* bodies of the forecast response: forecastDays missing, or up to MaxDays days
ForecastDatas ==
  {[has |-> FALSE, days |-> <<>>]}
  \cup {[has |-> TRUE, days |-> [i \in 1..n |-> FullDay(i)]] : n \in 0..MaxDays}
  \cup {[has |-> TRUE, days |-> [i \in 1..n |-> BareDay]] : n \in {1, MaxDays}}

\* a non-ok status, or a rejected fetch or json() caught by the try block
Failures == {"notok", "throw"}

CurrentOutcomes ==
  {[kind |-> f, data |-> NoCurrent] : f \in Failures}
  \cup {[kind |-> "ok", data |-> d] : d \in CurrentDatas}

ForecastOutcomes ==
  {[kind |-> f, data |-> [has |-> FALSE, days |-> <<>>]] : f \in Failures}
  \cup {[kind |-> "ok", data |-> d] : d \in ForecastDatas}

\* entries of geocodeData.results
GeoLocs ==
  {[geometry |-> TRUE, lat |-> 48, lng |-> 2],
   [geometry |-> TRUE, lat |-> -33, lng |-> 151]}

\* an entry without geometry: reading its location throws
NoGeometry == [geometry |-> FALSE, lat |-> 0, lng |-> 0]

SeqsUpTo(S, n) == UNION {[1..k -> S] : k \in 0..n}

GeoDatas ==
  {[has |-> FALSE, results |-> <<>>]}
  \cup {[has |-> TRUE, results |-> r] : r \in SeqsUpTo(GeoLocs, MaxResults)}
  \cup {[has |-> TRUE, results |-> <<NoGeometry>>]}

GeoOutcomes ==
  {[kind |-> f, data |-> [has |-> FALSE, results |-> <<>>]] : f \in Failures}
  \cup {[kind |-> "ok", data |-> d] : d \in GeoDatas}

NoGeo == [kind |-> "none", data |-> [has |-> FALSE, results |-> <<>>]]
NoForecast == [kind |-> "none", data |-> [has |-> FALSE, days |-> <<>>]]

\* what ai.weather(cityQ) resolves to: a weather result whose source tag the
\* handler does not set
AiCurrent == [temperature |-> 18, condition |-> <<"M", "i", "l", "d">>, humidity |-> 50]

AiResults ==
  {[current |-> AiCurrent, forecast |-> <<>>, recommendations |-> <<"Pack layers">>],
   [current |-> AiCurrent, forecast |-> <<>>, recommendations |-> <<"Pack layers">>,
    alerts |-> <<"Heat">>, source |-> "ai"]}

NoAi == [kind |-> "none"]

AiOutcomes == {[kind |-> "throw"]} \cup {[kind |-> "ok", data |-> d] : d \in AiResults}

\* { ...result, alerts: [] }
SpreadAlerts(r) ==
  [f \in (DOMAIN r) \cup {"alerts"} |-> IF f = "alerts" THEN <<>> ELSE r[f]]

Call(ep, c, ok) == [ep |-> ep, lat |-> c.lat, lon |-> c.lon, ok |-> ok]
NoCoords == [lat |-> 0, lon |-> 0]

(***************************************************************************)
(* The handler, one action per awaited step                                *)
(***************************************************************************)
HInit ==
  /\ req \in Requests
  /\ pc = "start"
  /\ via = "none"
  /\ coords = NoCoords
  /\ geoOut = NoGeo
  /\ curData = NoCurrent
  /\ fcOut = NoForecast
  /\ aiOut = NoAi
  /\ month = -1
  /\ calls = <<>>
  /\ resps = <<>>
  /\ thrown = FALSE

\* the handler is not running (the scripts are)
HIdle ==
  /\ req = [lat |-> Undef, lon |-> Undef, city |-> Undef, location |-> Undef,
            units |-> "", key |-> FALSE]
  /\ pc = "idle"
  /\ via = "none"
  /\ coords = NoCoords
  /\ geoOut = NoGeo
  /\ curData = NoCurrent
  /\ fcOut = NoForecast
  /\ aiOut = NoAi
  /\ month = -1
  /\ calls = <<>>
  /\ resps = <<>>
  /\ thrown = FALSE

\* parse the query, check the credential, pick the branch
Begin ==
  /\ pc = "start"
  /\ LET r == Route(req) IN
       CASE r = "noconfig" ->
              /\ resps' = Append(resps, NotConfigured)
              /\ pc' = "done"
              /\ UNCHANGED <<via, coords>>
         [] r = "invalid" ->
              /\ resps' = Append(resps, LocationRequired)
              /\ pc' = "done"
              /\ UNCHANGED <<via, coords>>
         [] r = "coord" ->
              /\ via' = "coord"
              /\ coords' = [lat |-> Lat(req).v, lon |-> Lon(req).v]
              /\ pc' = "current"
              /\ UNCHANGED resps
         [] r = "place" ->
              /\ via' = "place"
              /\ pc' = "geocode"
              /\ UNCHANGED <<coords, resps>>
  /\ UNCHANGED <<req, geoOut, curData, fcOut, aiOut, month, calls, thrown, svars>>

\* where the handler goes when getWeatherData returned null
RetryAfterNull(v) == "current"

NextAfterNull(v) == IF v = "coord" THEN "fallback" ELSE "ai"

\* getWeatherData returned null: coordinate branch answers with the synthetic
\* fallback, place-name branch falls through to ai.weather
OnNull ==
  LET n == NextAfterNull(via) IN
    IF n = "fallback"
    THEN \E m \in Months :
           /\ month' = m
           /\ resps' = Append(resps, CoordFallback(m))
           /\ pc' = "done"
    ELSE /\ pc' = n
         /\ UNCHANGED <<month, resps>>

\* await fetch(currentUrl), currentRes.ok, await currentRes.json()
FetchCurrent ==
  /\ pc = "current"
  /\ \E out \in CurrentOutcomes :
       /\ calls' = Append(calls, Call("current", coords, out.kind = "ok"))
       /\ IF out.kind = "ok"
          THEN /\ curData' = out.data
               /\ pc' = "forecast"
               /\ UNCHANGED <<month, resps>>
          ELSE /\ OnNull
               /\ UNCHANGED curData
  /\ UNCHANGED <<req, via, coords, geoOut, fcOut, aiOut, thrown, svars>>

\* await fetch(forecastUrl), forecastRes.ok, await forecastRes.json(), normalise
FetchForecast ==
  /\ pc = "forecast"
  /\ \E out \in ForecastOutcomes :
       /\ calls' = Append(calls, Call("forecast", coords, out.kind = "ok"))
       /\ fcOut' = out
       /\ LET wd == GetWeatherData(curData, out, Units(req)) IN
            IF ~wd.null
            THEN /\ resps' = Append(resps, Ok200(wd.data))
                 /\ pc' = "done"
                 /\ UNCHANGED month
            ELSE OnNull
  /\ UNCHANGED <<req, via, coords, geoOut, curData, aiOut, thrown, svars>>

\* geocodeData.results[0]
FirstLocationLast(results) == results[Len(results)]

FirstLocation(results) == results[1]

\* await fetch(geocodeUrl) inside the inner try
Geocode ==
  /\ pc = "geocode"
  /\ \E out \in GeoOutcomes :
       /\ geoOut' = out
       /\ calls' = Append(calls, Call("geocode", NoCoords, out.kind = "ok"))
       /\ IF /\ out.kind = "ok"
             /\ out.data.has
             /\ Len(out.data.results) > 0
             /\ FirstLocation(out.data.results).geometry
          THEN /\ coords' = [lat |-> FirstLocation(out.data.results).lat,
                             lon |-> FirstLocation(out.data.results).lng]
               /\ pc' = "current"
          ELSE /\ pc' = "ai"
               /\ UNCHANGED coords
  /\ UNCHANGED <<req, via, curData, fcOut, aiOut, month, resps, thrown, svars>>

\* await ai.weather(cityQ); a rejection lands in the outer catch
AiWeather ==
  /\ pc = "ai"
  /\ \E out \in AiOutcomes :
       /\ aiOut' = out
       /\ calls' = Append(calls, Call("ai", NoCoords, out.kind = "ok"))
       /\ IF out.kind = "ok"
          THEN /\ resps' = Append(resps, Ok200(SpreadAlerts(out.data)))
               /\ UNCHANGED <<month, thrown>>
          ELSE \E m \in Months :
                 /\ month' = m
                 /\ resps' = resps \o OuterCatch(m).resps
                 /\ thrown' = OuterCatch(m).thrown
       /\ pc' = "done"
  /\ UNCHANGED <<req, via, coords, geoOut, curData, fcOut, svars>>

Next == Begin \/ Geocode \/ FetchCurrent \/ FetchForecast \/ AiWeather

SIdle ==
  /\ script = "none"
  /\ spc = "idle"
  /\ orig = <<>>
  /\ content = <<>>
  /\ writes = 0
  /\ exitCode = -1

Init == HInit /\ SIdle

Spec == Init /\ [][Next]_vars

(***************************************************************************)
(* Properties of the handler                                               *)
(***************************************************************************)
CoordsPresent == IsFinite(Lat(req)) /\ IsFinite(Lon(req))
NamePresent == CityQ(req) # <<>>
NoLocation == ~CoordsPresent /\ ~NamePresent

WeatherCallFailed ==
  \E i \in 1..Len(calls) : calls[i].ep \in {"current", "forecast"} /\ ~calls[i].ok

AiCalled == \E i \in 1..Len(calls) : calls[i].ep = "ai"

\* the response carries the result getWeatherData built
FromProvider == pc = "done" /\ fcOut.kind = "ok"

\* the response was built from the seasonal baseline table
FromBaseline == pc = "done" /\ month # -1

\* current, forecast (at most 7 days, each with a day, high, low and condition),
\* recommendations and an empty alerts list
ValidWeatherResult(b) ==
  /\ {"current", "forecast", "recommendations", "alerts"} \subseteq DOMAIN b
  /\ {"temperature", "condition"} \subseteq DOMAIN b.current
  /\ Len(b.forecast) <= 7
  /\ \A i \in 1..Len(b.forecast) :
       {"day", "high", "low", "condition"} \subseteq DOMAIN b.forecast[i]
  /\ Len(b.recommendations) >= 1
  /\ b.alerts = <<>>

\* C1: whatever the inputs and whatever the upstream calls do, the handler
\* ends with exactly one response and no exception leaves it: it never answers
\* twice, never throws, always can take its next step until it is done after
\* at most four calls, and the one response is the 400 of a missing location,
\* the 503 of a missing credential or a 200 with a well-formed weather result.
C1_OneResponseNoThrow ==
  /\ ~thrown
  /\ Len(resps) <= 1
  /\ Len(calls) <= 4
  /\ pc = "done" \/ ENABLED Next
  /\ pc # "done" => resps = <<>>
  /\ pc = "done" =>
       /\ Len(resps) = 1
       /\ \/ resps[1] = LocationRequired
          \/ resps[1] = NotConfigured
          \/ resps[1].status = 200 /\ ValidWeatherResult(resps[1].body)

\* ai.weather rejected and the handler still answered 200
C1_Witness ==
  /\ pc = "done"
  /\ aiOut.kind = "throw"
  /\ Len(resps) = 1
  /\ resps[1].status = 200

\* C2 as stated: with neither finite coordinates nor a place name the answer
\* is the 400 and no provider was called.
C2_Original ==
  (pc = "done" /\ NoLocation) => (resps = <<LocationRequired>> /\ calls = <<>>)

\* C2 amended: with neither finite coordinates nor a place name no provider
\* is called and no fallback is synthesized; the answer is the 400 when the
\* credential is configured, and the 503 of the missing credential when it is
\* not, because the credential is checked first.
C2_NoLocationNoCalls ==
  NoLocation =>
    /\ calls = <<>>
    /\ month = -1
    /\ via = "none"
    /\ pc = "done" =>
         resps = <<IF req.key THEN LocationRequired ELSE NotConfigured>>

C2_Witness ==
  /\ pc = "done"
  /\ NoLocation
  /\ req.key
  /\ resps = <<LocationRequired>>

Pattern == <<"Sunny", "Partly Cloudy", "Cloudy", "Rain">>

\* b is the synthetic fallback for month m: tagged fallback, seven days
\* following the offsets from the baseline
IsSynthetic(b, m) ==
  /\ "source" \in DOMAIN b
  /\ b.source = "fallback-route"
  /\ Len(b.forecast) = 7
  /\ m \in 0..11
  /\ \A i \in 0..6 :
       /\ b.forecast[i + 1].high = BaseTable[m + 1] + (i % 3) - 1
       /\ b.forecast[i + 1].low = BaseTable[m + 1] - 5 + (i % 2)
       /\ b.forecast[i + 1].condition = Pattern[(i % 4) + 1]

C5_Original == (via # "none") => (CoordsPresent # NamePresent)

\* C5 amended: a lookup is entered only when at least one of coordinates and
\* place name is present; with neither the request is rejected and reaches no
\* lookup; with both it is not rejected: it takes the coordinate lookup and
\* never the place-name lookup.
C5_AtLeastOne ==
  pc # "start" =>
    /\ via = "coord" <=> (req.key /\ CoordsPresent)
    /\ via = "place" <=> (req.key /\ ~CoordsPresent /\ NamePresent)
    /\ NoLocation => (via = "none" /\ calls = <<>>)
    /\ via = "coord" =>
         \A i \in 1..Len(calls) : calls[i].ep \in {"current", "forecast"}

C5_Witness ==
  /\ pc = "done"
  /\ via = "coord"
  /\ CoordsPresent
  /\ NamePresent
  /\ resps[1].status = 200

\* geocoding failed, returned no results, or its first result was unusable
GeocodeFailedOrEmpty ==
  \/ geoOut.kind # "ok"
  \/ ~geoOut.data.has
  \/ Len(geoOut.data.results) = 0
  \/ ~geoOut.data.results[1].geometry

GeocodeFirst == (via = "place" /\ calls # <<>>) => calls[1].ep = "geocode"

SyntheticAfterAi ==
  (via = "place" /\ FromBaseline) =>
    (calls[Len(calls)].ep = "ai" /\ ~calls[Len(calls)].ok)

FirstResultCoords ==
  via = "place" =>
    \A i \in 1..Len(calls) :
      calls[i].ep \in {"current", "forecast"} =>
        /\ ~GeocodeFailedOrEmpty
        /\ calls[i].lat = geoOut.data.results[1].lat
        /\ calls[i].lon = geoOut.data.results[1].lng

InUnits(u, c) == IF u = "metric" THEN (c + 5) \div 10 ELSE (9 * c + 1625) \div 50

\* C3: every temperature of a provider result or of a synthetic fallback is
\* the rounded Celsius value for metric and round(C*9/5+32) for imperial.  A
\* forecast day without degrees stands for the current temperature (high) and
\* five degrees below it (low).
C3_TemperaturesInUnits ==
  LET u == Units(req)
      b == resps[1].body
      c == TempCelsius(curData)
  IN
  /\ FromProvider =>
       /\ b.current.temperature = InUnits(u, c)
       /\ \A i \in 1..Len(b.forecast) :
            LET d == fcOut.data.days[i] IN
            /\ b.forecast[i].high = InUnits(u, IF d.max.has THEN d.max.v ELSE c)
            /\ b.forecast[i].low = InUnits(u, IF d.min.has THEN d.min.v ELSE c - 50)
       /\ Len(b.forecast) > 0 =>
            /\ b.current.tempMax = b.forecast[1].high
            /\ b.current.tempMin = b.forecast[1].low
       /\ Len(b.forecast) = 0 => b.current.tempMax = b.current.temperature
  /\ FromBaseline =>
       /\ b.current.temperature = InUnits(u, 10 * BaseTemp(month))
       /\ \A i \in 0..6 :
            /\ b.forecast[i + 1].high = InUnits(u, 10 * (BaseTemp(month) + (i % 3) - 1))
            /\ b.forecast[i + 1].low = InUnits(u, 10 * (BaseTemp(month) - 5 + (i % 2)))

\* C8: a provider result advises hydration exactly when the current
\* temperature is at least 30 degrees Celsius, a raincoat exactly when the
\* condition text contains rain or shower in any case, and always ends with
\* the sun-protection tip, whatever the unit system.
C8_Recommendations ==
  FromProvider =>
    LET recs == resps[1].body.recommendations
        text == ToLowerCase(TextOrClear(curData.text))
    IN
    /\ ("Stay hydrated" \in Range(recs)) <=> (RoundTenths(TempCelsius(curData)) >= 30)
    /\ ("Carry a raincoat" \in Range(recs)) <=>
         (Includes(text, <<"r", "a", "i", "n">>) \/ Includes(text, <<"s", "h", "o", "w", "e", "r">>))
    /\ recs[Len(recs)] = "Use sunscreen during midday"

\* C9: no endpoint is called twice in one lookup, and a failed call is
\* followed at once by the next data source (ai.weather) or by the end of the
\* lookup with the fallback; never by another call to the same endpoint.
C9_NoRetries ==
  /\ \A i, j \in 1..Len(calls) : i # j => calls[i].ep # calls[j].ep
  /\ \A i \in 1..Len(calls) :
       ~calls[i].ok =>
         /\ i < Len(calls) => (calls[i + 1].ep = "ai" /\ calls[i].ep # "ai")
         /\ i = Len(calls) => pc \in {"ai", "done"}
         /\ (i = Len(calls) /\ pc = "done") => IsSynthetic(resps[1].body, month)
         /\ (i = Len(calls) /\ pc = "ai") => calls[i].ep # "ai"

C9_Witness ==
  /\ pc = "done"
  /\ Len(calls) = 4
  /\ calls[1].ok
  /\ calls[2].ok
  /\ ~calls[3].ok
  /\ calls[4].ep = "ai"

(***************************************************************************)
(* Part II: the scripts that splice routes.ts                              *)
(*                                                                         *)
(* routes.ts is a sequence of tokens.  The markers the scripts search for  *)
(* share their beginnings, as the real ones do: "g" is "  app.get('/api/v1" *)
(* followed by "w" (the weather route) or "c" (the currency route); "p" is *)
(* "  app.post('/api/tools/weather" followed by "a" (the first POST route) *)
(* or "t" (the /test route); "s" is the trips/sync route.  "K" is          *)
(* process.env.WEATHER_API_KEY and "P" is WEATHER_PROVIDER.                *)
(***************************************************************************)
WeatherMarker == <<"g", "w">>
CurrencyMarker == <<"g", "c">>
FirstPostMarker == <<"p", "a">>
TestPostMarker == <<"p", "t">>
TripsSyncMarker == <<"s">>

\* new_weather_route: it starts with the weather marker; "n" is its new body
NewWeatherRoute == <<"g", "w", "n">>

MigrateTokens == {"g", "w", "c", "K", "P"}
RemoveTokens == {"p", "a", "t", "s"}

\* marker occurs in c at 0-based index i
OccursAt(c, marker, i) ==
  /\ i >= 0
  /\ i + Len(marker) <= Len(c)
  /\ SubSeq(c, i + 1, i + Len(marker)) = marker

\* str.find(marker, start): the lowest index at or after start, or -1
FindIgnoreStart(c, marker, start) ==
  IF \E i \in 0..Len(c) : OccursAt(c, marker, i)
  THEN CHOOSE i \in 0..Len(c) :
         OccursAt(c, marker, i) /\ \A k \in 0..(i - 1) : ~OccursAt(c, marker, k)
  ELSE -1

Find(c, marker, start) ==
  IF \E i \in start..Len(c) : OccursAt(c, marker, i)
  THEN CHOOSE i \in start..Len(c) :
         OccursAt(c, marker, i) /\ \A k \in start..(i - 1) : ~OccursAt(c, marker, k)
  ELSE -1

\* c[:i]
Before(c, i) == SubSeq(c, 1, i)

\* c[i:]
From(c, i) == SubSeq(c, i + 1, Len(c))

\* str.replace(token, by) for a one-token pattern
RECURSIVE Replace(_, _, _)
Replace(c, token, by) ==
  IF c = <<>> THEN <<>>
  ELSE (IF Head(c) = token THEN by ELSE <<Head(c)>>) \o Replace(Tail(c), token, by)

SInit ==
  /\ script \in {"migrate", "remove"}
  /\ orig \in SeqsUpTo(IF script = "migrate" THEN MigrateTokens ELSE RemoveTokens, MaxLen)
  /\ content = orig
  /\ spc = "start"
  /\ writes = 0
  /\ exitCode = -1

\* migrate_weather_complete.py up to its first write
MigrateSplice ==
  /\ script = "migrate"
  /\ spc = "start"
  /\ LET weather_route_start == Find(content, WeatherMarker, 0)
         currency_route_start == Find(content, CurrencyMarker, weather_route_start)
     IN IF weather_route_start = -1 \/ currency_route_start = -1
        THEN /\ exitCode' = 1
             /\ spc' = "exited"
             /\ UNCHANGED <<content, writes>>
        ELSE /\ content' = Before(content, weather_route_start) \o NewWeatherRoute
                             \o From(content, currency_route_start)
             /\ writes' = writes + 1
             /\ spc' = "spliced"
             /\ UNCHANGED exitCode
  /\ UNCHANGED <<script, orig, hvars>>

\* migrate_weather_complete.py from its second read to the end
MigrateReplace ==
  /\ script = "migrate"
  /\ spc = "spliced"
  /\ content' = Replace(Replace(content, "K", <<"G">>), "P", <<"o", "P">>)
  /\ writes' = writes + 1
  /\ spc' = "done"
  /\ exitCode' = 0
  /\ UNCHANGED <<script, orig, hvars>>

\* remove_post_routes.py
RemovePostRoutes ==
  /\ script = "remove"
  /\ spc = "start"
  /\ LET first_route_start == Find(content, FirstPostMarker, 0)
         second_route_start ==
           IF first_route_start = -1 THEN -1
           ELSE Find(content, TestPostMarker, first_route_start)
         trips_sync_start ==
           IF second_route_start = -1 THEN -1
           ELSE Find(content, TripsSyncMarker, second_route_start)
     IN IF trips_sync_start = -1
        THEN /\ exitCode' = 1
             /\ spc' = "exited"
             /\ UNCHANGED <<content, writes>>
        ELSE /\ content' = Before(content, first_route_start) \o From(content, trips_sync_start)
             /\ writes' = writes + 1
             /\ spc' = "done"
             /\ exitCode' = 0
  /\ UNCHANGED <<script, orig, hvars>>

ScriptNext == MigrateSplice \/ MigrateReplace \/ RemovePostRoutes

ScriptInit == SInit /\ HIdle

ScriptSpec == ScriptInit /\ [][ScriptNext]_vars

(***************************************************************************)
(* Properties of the scripts                                               *)
(***************************************************************************)
\* i is the first occurrence of marker in orig at or after index from
FirstFrom(marker, from, i) ==
  /\ i >= from
  /\ OccursAt(orig, marker, i)
  /\ \A k \in from..(i - 1) : ~OccursAt(orig, marker, k)

Idx == 0..Len(orig)

MigrateMarkers(i, j) ==
  FirstFrom(WeatherMarker, 0, i) /\ FirstFrom(CurrencyMarker, i, j)

RemoveMarkers(i, j, k) ==
  /\ FirstFrom(FirstPostMarker, 0, i)
  /\ FirstFrom(TestPostMarker, i, j)
  /\ FirstFrom(TripsSyncMarker, j, k)

\* C10: when a marker is not found in the required order the script exits
\* with status 1 having written nothing, so routes.ts is unchanged; it writes
\* only when every marker was found, and the spliced content is the text
\* before the first marker, then the replacement (nothing, for
\* remove_post_routes.py), then the text from the last marker onward.
C10_SpliceFrame ==
  /\ spc = "start" => (content = orig /\ writes = 0)
  /\ spc = "exited" => (exitCode = 1 /\ writes = 0 /\ content = orig)
  /\ script = "migrate" =>
       /\ spc = "exited" => ~\E i, j \in Idx : MigrateMarkers(i, j)
       /\ writes > 0 => \E i, j \in Idx : MigrateMarkers(i, j)
       /\ spc = "spliced" =>
            /\ writes = 1
            /\ \E i, j \in Idx :
                 /\ MigrateMarkers(i, j)
                 /\ content = SubSeq(orig, 1, i) \o NewWeatherRoute
                                \o SubSeq(orig, j + 1, Len(orig))
  /\ script = "remove" =>
       /\ spc = "exited" => ~\E i, j, k \in Idx : RemoveMarkers(i, j, k)
       /\ writes > 0 => \E i, j, k \in Idx : RemoveMarkers(i, j, k)
       /\ spc = "done" =>
            /\ writes = 1
            /\ \E i, j, k \in Idx :
                 /\ RemoveMarkers(i, j, k)
                 /\ content = SubSeq(orig, 1, i) \o SubSeq(orig, k + 1, Len(orig))

\* a splice that keeps text on both sides of the replaced routes
C10_Witness ==
  /\ script = "migrate"
  /\ spc = "spliced"
  /\ Find(orig, WeatherMarker, 0) > 0
  /\ Len(content) > Find(orig, WeatherMarker, 0) + Len(NewWeatherRoute) + Len(CurrencyMarker)
  /\ content # orig

====
